---- MODULE Spec2Model ----
(***************************************************************************)
(* Model of the lunavl binding layer: FaceDetector (detectOne, detect),    *)
(* FaceDetection / BoundingBox, MaskEstimator.estimate and Mask.          *)
(* The native FaceEngine is the environment: every native call             *)
(* answers with an (error, value) pair chosen nondeterministically.        *)
(* Python objects are tagged records; result objects live in `heap` and    *)
(* are returned by reference.                                             *)
(***************************************************************************)
EXTENDS Integers, Sequences, FiniteSets, TLC

VARIABLES heap, last

vars == <<heap, last>>

(* ---------------------------------------------------------------- bounds *)
\* longest batch handed to detect
MaxBatch == 2
\* most detections the native detector answers with for one image
MaxDet == 2
\* most result objects one call may build
MaxHeap == 4
\* most result objects alive at once in a session of several calls
MaxLive == 2

(* ------------------------------------------------------- python values   *)
None == [type |-> "NoneType"]

Min(a, b) == IF a < b THEN a ELSE b

RECURSIVE SumSeq(_)
SumSeq(s) == IF s = <<>> THEN 0 ELSE Head(s) + SumSeq(Tail(s))

RECURSIVE Flatten(_)
Flatten(ss) == IF ss = <<>> THEN <<>> ELSE Head(ss) \o Flatten(Tail(ss))

SeqsUpTo(S, n) == UNION {[1..k -> S] : k \in 0..n}

(* ------------------------------------------- image_utils (Rect, VLImage) *)
CoreImage(id) == [type |-> "CoreImage", id |-> id]

VLImage(id, format) ==
    [type |-> "VLImage", id |-> id, format |-> format, coreImage |-> CoreImage(id)]

\* coreImage.getRect(): the full rect of the image (image id n is n+1 wide, 2 high)
getRect(coreImage) ==
    [type |-> "CoreRect", x |-> 0, y |-> 0, width |-> coreImage.id + 1, height |-> 2]

Rect(x, y, width, height) ==
    [type |-> "Rect", x |-> x, y |-> y, width |-> width, height |-> height]

\* Rect.coreRect
coreRect(rect) ==
    [type |-> "CoreRect", x |-> rect.x, y |-> rect.y,
     width |-> rect.width, height |-> rect.height]

\* Rect.fromCoreRect
fromCoreRect(cr) == Rect(cr.x, cr.y, cr.width, cr.height)

ImageForDetection(image, detectArea) ==
    [type |-> "ImageForDetection", image |-> image, detectArea |-> detectArea]

VLImages == {VLImage(1, "R8G8B8"), VLImage(2, "B8G8R8")}

DetectAreas == {Rect(1, 1, 1, 1)}

DetectInputs ==
    VLImages \cup {ImageForDetection(i, a) : i \in VLImages, a \in DetectAreas}

(* ------------------------------------------------ FaceEngine (the native) *)
FSDKErrors == {"Ok", "BufferIsEmpty", "InvalidImage"}

\* a native Result: isError is true of every code but Ok
SDKResult(code) == [isError |-> code # "Ok", FSDKError |-> code]

dt5Landmarks == 1
dt68Landmarks == 2

\* bitwise or of two detection type masks (two bits wide)
BitOr(a, b) ==
    (IF a % 2 = 1 \/ b % 2 = 1 THEN 1 ELSE 0)
    + 2 * (IF (a \div 2) % 2 = 1 \/ (b \div 2) % 2 = 1 THEN 1 ELSE 0)

CoreOptional(valid, value) == [valid |-> valid, value |-> value]

\* a core Face: the detection (rect, score, validity) and two optional landmarks
CoreFace(score, valid, l5, l68) ==
    [type |-> "Face",
     detection |-> [type |-> "DetectionFloat",
                    rect |-> [type |-> "CoreRect", x |-> score, y |-> 0,
                              width |-> 1, height |-> 1],
                    score |-> score, valid |-> valid],
     landmarks5_opt |-> CoreOptional(l5, [type |-> "CoreLandmarks5", id |-> score]),
     landmarks68_opt |-> CoreOptional(l68, [type |-> "CoreLandmarks68", id |-> score])]

CoreFaces ==
    {CoreFace(1, TRUE, TRUE, FALSE), CoreFace(2, TRUE, FALSE, TRUE),
     CoreFace(3, TRUE, TRUE, TRUE), CoreFace(4, TRUE, FALSE, FALSE),
     CoreFace(5, FALSE, TRUE, FALSE)}

\* the two faces that differ in everything: enough to tell order and identity
BatchFaces == {CoreFace(1, TRUE, TRUE, FALSE), CoreFace(2, TRUE, FALSE, TRUE)}

(* ------------------------------------------------------ errors (lunavl)  *)
ErrorInfo(errorCode, description, detail) ==
    [type |-> "ErrorInfo", errorCode |-> errorCode,
     description |-> description, detail |-> detail]

\* ErrorInfo.fromSDKError(errorCode, description, sdkError)
ErrorInfo_fromSDKError(errorCode, description, sdkError) ==
    ErrorInfo(errorCode, description, sdkError.FSDKError)

Return(value, new) == [kind |-> "return", value |-> value, new |-> new]

Raise(exc, error) == [kind |-> "raise", exc |-> exc, error |-> error, new |-> <<>>]

Ref(addr) == [type |-> "ref", addr |-> addr]

(* ---------------------------------------------------------- facedetector *)
BoundingBox(boundingBox) == [type |-> "BoundingBox", coreEstimation |-> boundingBox]

Landmarks5(coreLandmark5) == [type |-> "Landmarks5", coreEstimation |-> coreLandmark5]

Landmarks68(coreLandmark68) == [type |-> "Landmarks68", coreEstimation |-> coreLandmark68]

\* FaceDetection.__init__ deciding landmarks68 by the landmarks5 optional
FaceDetection_Landmarks68By5(coreDetection, image) ==
    [type |-> "FaceDetection",
     coreEstimation |-> coreDetection,
     boundingBox |-> BoundingBox(coreDetection.detection),
     landmarks5 |-> IF coreDetection.landmarks5_opt.valid
                    THEN Landmarks5(coreDetection.landmarks5_opt.value)
                    ELSE None,
     landmarks68 |-> IF coreDetection.landmarks5_opt.valid
                     THEN Landmarks68(coreDetection.landmarks68_opt.value)
                     ELSE None,
     image |-> image]

\* FaceDetection.__init__
FaceDetection(coreDetection, image) ==
    [type |-> "FaceDetection",
     coreEstimation |-> coreDetection,
     boundingBox |-> BoundingBox(coreDetection.detection),
     landmarks5 |-> IF coreDetection.landmarks5_opt.valid
                    THEN Landmarks5(coreDetection.landmarks5_opt.value)
                    ELSE None,
     landmarks68 |-> IF coreDetection.landmarks68_opt.valid
                     THEN Landmarks68(coreDetection.landmarks68_opt.value)
                     ELSE None,
     image |-> image]

\* the defaults of detect5Landmarks and detect68Landmarks
DefaultDetect5Landmarks == TRUE

DefaultDetect68Landmarks == FALSE

\* _getDetectionType or-ing dt5Landmarks in for either flag
getDetectionType_Or5Twice(detect5Landmarks, detect68Landmarks) ==
    LET toDetect0 == 0
        toDetect1 == IF detect5Landmarks THEN BitOr(toDetect0, dt5Landmarks) ELSE toDetect0
        toDetect2 == IF detect68Landmarks THEN BitOr(toDetect1, dt5Landmarks) ELSE toDetect1
    IN  toDetect2

\* FaceDetector._getDetectionType
getDetectionType(detect5Landmarks, detect68Landmarks) ==
    LET toDetect0 == 0
        toDetect1 == IF detect5Landmarks THEN BitOr(toDetect0, dt5Landmarks) ELSE toDetect0
        toDetect2 == IF detect68Landmarks THEN BitOr(toDetect1, dt68Landmarks) ELSE toDetect1
    IN  toDetect2

\* the detect area detectOne forwards
detectOneArea(image, detectArea) ==
    IF detectArea = None THEN getRect(image.coreImage) ELSE coreRect(detectArea)

\* detectOneResult without the BufferIsEmpty case: every error is raised
detectOneResult_NoEmptyCase(image, detectRes, addr) ==
    IF detectRes[1].isError
    THEN Raise("LunaSDKException", ErrorInfo_fromSDKError(123, "detection", detectRes[1]))
    ELSE IF ~detectRes[2].detection.valid
         THEN Raise("ValueError", "WTF bad rect")
         ELSE Return(Ref(addr), <<FaceDetection(detectRes[2], image)>>)

\* detectOne after the native call: detectRes = <<error, coreDetection>>;
\* a new FaceDetection is allocated at address `addr`
detectOneResult(image, detectRes, addr) ==
    IF detectRes[1].isError
    THEN IF detectRes[1].FSDKError = "BufferIsEmpty"
         THEN Return(None, <<>>)
         ELSE Raise("LunaSDKException", ErrorInfo_fromSDKError(123, "detection", detectRes[1]))
    ELSE IF ~detectRes[2].detection.valid
         THEN Raise("ValueError", "WTF bad rect")
         ELSE Return(Ref(addr), <<FaceDetection(detectRes[2], image)>>)

\* what the native detectOne may answer: an error (its value is unspecified,
\* one face stands for it) or success with any face of `faces`
NativeDetectOneResults(faces) ==
    {<<SDKResult(e), CoreFace(1, TRUE, TRUE, FALSE)>> : e \in FSDKErrors \ {"Ok"}}
    \cup {<<SDKResult("Ok"), f>> : f \in faces}

\* detectCollect checking the format of bare VLImage inputs only
RECURSIVE detectCollect_BareOnly(_, _, _)
detectCollect_BareOnly(images, imgs, detectAreas) ==
    IF images = <<>>
    THEN [ok |-> TRUE, imgs |-> imgs, detectAreas |-> detectAreas]
    ELSE LET image == Head(images)
             img == IF image.type = "VLImage" THEN image ELSE image.image
             detectArea == IF image.type = "VLImage"
                           THEN getRect(image.coreImage)
                           ELSE coreRect(image.detectArea)
         IN  IF image.type = "VLImage" /\ img.format # "R8G8B8"
             THEN [ok |-> FALSE,
                   error |-> ErrorInfo(126, "bad format", img.format)]
             ELSE detectCollect_BareOnly(Tail(images), Append(imgs, img.coreImage),
                                         Append(detectAreas, detectArea))

\* the loop of detect over its inputs (lines 268-281): the core images and
\* detect areas collected so far, or the bad-format error of the first bad input
RECURSIVE detectCollect(_, _, _)
detectCollect(images, imgs, detectAreas) ==
    IF images = <<>>
    THEN [ok |-> TRUE, imgs |-> imgs, detectAreas |-> detectAreas]
    ELSE LET image == Head(images)
             img == IF image.type = "VLImage" THEN image ELSE image.image
             detectArea == IF image.type = "VLImage"
                           THEN getRect(image.coreImage)
                           ELSE coreRect(image.detectArea)
         IN  IF img.format # "R8G8B8"
             THEN [ok |-> FALSE,
                   error |-> ErrorInfo(126, "bad format", img.format)]
             ELSE detectCollect(Tail(images), Append(imgs, img.coreImage),
                                Append(detectAreas, detectArea))

\* number of detections in the lists before list i
Before(coreLists, i) == SumSeq([k \in 1..(i - 1) |-> Len(coreLists[k])])

\* the image handed to the FaceDetection built for input numberImage (line 289)
detectionImage(images, numberImage) == images[numberImage]

\* detectNew wrapping the detections of each image last to first
detectNew_Reversed(images, coreLists) ==
    Flatten([i \in 1..Len(coreLists) |->
                [j \in 1..Len(coreLists[i]) |->
                    FaceDetection(coreLists[i][Len(coreLists[i]) + 1 - j], images[i])]])

\* the objects detect builds, in allocation order (lines 287-289)
detectNew(images, coreLists) ==
    Flatten([i \in 1..Len(coreLists) |->
                [j \in 1..Len(coreLists[i]) |->
                    FaceDetection(coreLists[i][j], detectionImage(images, i))]])

\* the list of lists detect returns: references to the objects of detectNew
detectValue(coreLists, base) ==
    [i \in 1..Len(coreLists) |->
        [j \in 1..Len(coreLists[i]) |-> Ref(base + Before(coreLists, i) + j)]]

\* detectResult treating BufferIsEmpty as "nothing found", as detectOne does
detectResult_EmptyIsNoResult(images, detectRes, base) ==
    IF detectRes[1].isError
    THEN IF detectRes[1].FSDKError = "BufferIsEmpty"
         THEN Return(<<>>, <<>>)
         ELSE Raise("LunaSDKException",
                    ErrorInfo_fromSDKError(124, "detection", detectRes[1]))
    ELSE Return(detectValue(detectRes[2], base), detectNew(images, detectRes[2]))

\* detect after the native call (lines 285-290): detectRes = <<error, lists>>
detectResult(images, detectRes, base) ==
    IF detectRes[1].isError
    THEN Raise("LunaSDKException", ErrorInfo_fromSDKError(124, "detection", detectRes[1]))
    ELSE Return(detectValue(detectRes[2], base), detectNew(images, detectRes[2]))

\* what the native detect may answer for n images: an error, or one list per
\* image, each of at most `limit` faces of `faces`
NativeDetectResults(n, limit, faces) ==
    {<<SDKResult(e), <<>>>> : e \in FSDKErrors \ {"Ok"}}
    \cup {<<SDKResult("Ok"), ls>> : ls \in [1..n -> SeqsUpTo(faces, Min(limit, MaxDet))]}

(* ------------------------------------------------------------------ mask *)
CoreMaskValues == {"NoMask", "Mask", "OccludedFace", "Unknown"}

\* MedicalMaskEstimation: three scores (in hundredths here) and the result
MedicalMaskEstimation(maskScore, noMaskScore, occludedFaceScore, result) ==
    [type |-> "MedicalMaskEstimation", maskScore |-> maskScore,
     noMaskScore |-> noMaskScore, occludedFaceScore |-> occludedFaceScore,
     result |-> result]

CoreMasks == {MedicalMaskEstimation(3, 1, 2, r) : r \in CoreMaskValues}

\* fromCoreEmotion falling back to Missing instead of raising
fromCoreEmotion_DefaultMissing(coreMask) ==
    IF coreMask = "Mask" THEN Return("MedicalMask", <<>>)
    ELSE IF coreMask = "OccludedFace" THEN Return("Occluded", <<>>)
    ELSE Return("Missing", <<>>)

\* MaskState.fromCoreEmotion
fromCoreEmotion(coreMask) ==
    IF coreMask = "NoMask" THEN Return("Missing", <<>>)
    ELSE IF coreMask = "Mask" THEN Return("MedicalMask", <<>>)
    ELSE IF coreMask = "OccludedFace" THEN Return("Occluded", <<>>)
    ELSE Raise("RuntimeError", <<"bad core mask state", coreMask>>)

\* Mask.__init__
Mask(mask) == [type |-> "Mask", coreEstimation |-> mask]

medicalMask(self) == self.coreEstimation.maskScore

missing(self) == self.coreEstimation.noMaskScore

occluded(self) == self.coreEstimation.occludedFaceScore

predominateMask(self) == fromCoreEmotion(self.coreEstimation.result)

\* Mask.asDict
Mask_asDict(self) ==
    LET predominant == predominateMask(self)
        predominantName ==
            IF predominant.value = "Occluded" THEN "occluded"
            ELSE IF predominant.value = "MedicalMask" THEN "medical_mask"
            ELSE "missing"
    IN  IF predominant.kind = "raise"
        THEN predominant
        ELSE Return([predominant_mask |-> predominantName,
                     estimations |-> [medical_mask |-> medicalMask(self),
                                      missing |-> missing(self),
                                      occluded |-> occluded(self)]], <<>>)

FaceWarpedImage(id) ==
    [type |-> "FaceWarpedImage", id |-> id, coreImage |-> CoreImage(id)]

FaceWarp(id) == [type |-> "FaceWarp", warpedImage |-> FaceWarpedImage(id)]

\* the warpedImage property: a FaceWarpedImage is its own warped image
warpedImage(imageObject) ==
    IF imageObject.type = "FaceWarp" THEN imageObject.warpedImage ELSE imageObject

ImageWithDetection(image, detection) ==
    [type |-> "tuple", image |-> image, detection |-> detection]

EstimateInputs ==
    {FaceWarpedImage(1), FaceWarp(1),
     ImageWithDetection(VLImage(1, "R8G8B8"), CoreFace(1, TRUE, TRUE, FALSE).detection)}

\* the arguments estimate hands to the native estimator (lines 185-189)
estimateRequest(imageObject) ==
    IF imageObject.type \in {"FaceWarpedImage", "FaceWarp"}
    THEN [fn |-> "estimate", images |-> <<warpedImage(imageObject).coreImage>>,
          detection |-> None]
    ELSE [fn |-> "estimate", images |-> <<imageObject.image.coreImage>>,
          detection |-> imageObject.detection]

\* LunaVLError.fromSDKError(error)
LunaVLError_fromSDKError(sdkError) ==
    ErrorInfo("LunaVLError", "fromSDKError", sdkError.FSDKError)

\* the CoreExceptionWrap(error) decorator: a RuntimeError leaving the wrapped
\* call becomes a LunaSDKException carrying `error`; anything else passes
CoreExceptionWrap(error, outcome) ==
    IF outcome.kind = "raise" /\ outcome.exc = "RuntimeError"
    THEN Raise("LunaSDKException", ErrorInfo("LunaVLError", error, outcome.error))
    ELSE outcome

\* estimateBody without the error check
estimateBody_IgnoresError(estimateRes, addr) ==
    Return(Ref(addr), <<Mask(estimateRes[2])>>)

\* estimate after the native call (lines 190-192): estimateRes = <<error, mask>>
estimateBody(estimateRes, addr) ==
    IF estimateRes[1].isError
    THEN Raise("LunaSDKException", LunaVLError_fromSDKError(estimateRes[1]))
    ELSE Return(Ref(addr), <<Mask(estimateRes[2])>>)

estimateResult(estimateRes, addr) ==
    CoreExceptionWrap("EstimationMaskError", estimateBody(estimateRes, addr))

NativeEstimateResults(masks) ==
    {<<SDKResult(e), MedicalMaskEstimation(0, 0, 0, "NoMask")>> : e \in FSDKErrors \ {"Ok"}}
    \cup {<<SDKResult("Ok"), m>> : m \in masks}

(* ------------------------------------------------------------- getters   *)
\* BoundingBox.score
score(self) == self.coreEstimation.score

\* BoundingBox.rect
rect(self) == fromCoreRect(self.coreEstimation.rect)

\* FaceDetection.image
image(self) == self.image

\* Rect.asDict
Rect_asDict(r) == [x |-> r.x, y |-> r.y, width |-> r.width, height |-> r.height]

\* FaceDetection.asDict: a dict is a function from its keys
FaceDetection_asDict(self) ==
    LET res0 == ("rect" :> Rect_asDict(rect(self.boundingBox)))
                @@ ("score" :> [float |-> score(self.boundingBox)])
        res1 == IF self.landmarks5 # None
                THEN res0 @@ ("landmarks5" :> self.landmarks5.coreEstimation)
                ELSE res0
        res2 == IF self.landmarks68 # None
                THEN res1 @@ ("landmarks68" :> self.landmarks68.coreEstimation)
                ELSE res1
    IN  res2

(* ------------------------------------------------------------- the state *)
NoCall == [op |-> "init", input |-> None, request |-> None, native |-> None,
           outcome |-> Return(None, <<>>)]

Init ==
    /\ heap = <<>>
    /\ last = NoCall

\* nothing has been called yet
Fresh == heap = <<>> /\ last.op = "init"

Addrs(cls) == {a \in 1..Len(heap) : heap[a].type = cls}

(* --------------------------------------------------------------- actions *)
\* FaceDetector.detectOne; the native answers with an error or a face of `faces`
DetectOne(image_, detectArea, detect5Landmarks, detect68Landmarks, faces) ==
    LET request == [fn |-> "detectOne",
                    images |-> <<image_.coreImage>>,
                    areas |-> <<detectOneArea(image_, detectArea)>>,
                    type |-> getDetectionType(detect5Landmarks, detect68Landmarks)]
    IN  \E detectRes \in NativeDetectOneResults(faces) :
          LET outcome == detectOneResult(image_, detectRes, Len(heap) + 1)
          IN  /\ Len(heap) + Len(outcome.new) <= MaxHeap
              /\ heap' = heap \o outcome.new
              /\ last' = [op |-> "detectOne",
                          input |-> [image |-> image_, detectArea |-> detectArea,
                                     detect5Landmarks |-> detect5Landmarks,
                                     detect68Landmarks |-> detect68Landmarks],
                          request |-> request,
                          native |-> detectRes,
                          outcome |-> outcome]

\* FaceDetector.detect
Detect(images, limit, detect5Landmarks, detect68Landmarks, faces) ==
    LET collected == detectCollect(images, <<>>, <<>>)
        input == [images |-> images, limit |-> limit,
                  detect5Landmarks |-> detect5Landmarks,
                  detect68Landmarks |-> detect68Landmarks]
    IN  IF ~collected.ok
        THEN /\ heap' = heap
             /\ last' = [op |-> "detect", input |-> input, request |-> None,
                         native |-> None,
                         outcome |-> Raise("LunaSDKException", collected.error)]
        ELSE LET request == [fn |-> "detect",
                             images |-> collected.imgs,
                             areas |-> collected.detectAreas,
                             limit |-> limit,
                             type |-> getDetectionType(detect5Landmarks,
                                                       detect68Landmarks)]
             IN  \E detectRes \in NativeDetectResults(Len(collected.imgs), limit, faces) :
                   LET outcome == detectResult(images, detectRes, Len(heap))
                   IN  /\ Len(heap) + Len(outcome.new) <= MaxHeap
                       /\ heap' = heap \o outcome.new
                       /\ last' = [op |-> "detect", input |-> input,
                                   request |-> request, native |-> detectRes,
                                   outcome |-> outcome]

\* MaskEstimator.estimate
Estimate(imageObject, masks) ==
    \E estimateRes \in NativeEstimateResults(masks) :
      LET outcome == estimateResult(estimateRes, Len(heap) + 1)
      IN  /\ Len(heap) + Len(outcome.new) <= MaxHeap
          /\ heap' = heap \o outcome.new
          /\ last' = [op |-> "estimate", input |-> [imageObject |-> imageObject],
                      request |-> estimateRequest(imageObject),
                      native |-> estimateRes, outcome |-> outcome]

\* a property getter or asDict on the object at `addr`: the heap is left alone
Read(op, addr, outcome) ==
    /\ heap' = heap
    /\ last' = [op |-> op, input |-> [self |-> Ref(addr)], request |-> None,
                native |-> None, outcome |-> outcome]

BoundingBoxScore(addr) ==
    Read("BoundingBox.score", addr, Return([float |-> score(heap[addr].boundingBox)], <<>>))

BoundingBoxRect(addr) ==
    Read("BoundingBox.rect", addr, Return(rect(heap[addr].boundingBox), <<>>))

FaceDetectionImage(addr) ==
    Read("FaceDetection.image", addr, Return(image(heap[addr]), <<>>))

\* asDict dropping the landmarks of the detection it has serialised
FaceDetectionAsDict_Clears(addr) ==
    /\ heap' = [heap EXCEPT ![addr].landmarks5 = None, ![addr].landmarks68 = None]
    /\ last' = [op |-> "FaceDetection.asDict", input |-> [self |-> Ref(addr)],
                request |-> None, native |-> None,
                outcome |-> Return(FaceDetection_asDict(heap[addr]), <<>>)]

FaceDetectionAsDict(addr) ==
    Read("FaceDetection.asDict", addr, Return(FaceDetection_asDict(heap[addr]), <<>>))

MaskMedicalMask(addr) ==
    Read("Mask.medicalMask", addr, Return([float |-> medicalMask(heap[addr])], <<>>))

MaskMissing(addr) ==
    Read("Mask.missing", addr, Return([float |-> missing(heap[addr])], <<>>))

MaskOccluded(addr) ==
    Read("Mask.occluded", addr, Return([float |-> occluded(heap[addr])], <<>>))

MaskPredominateMask(addr) ==
    Read("Mask.predominateMask", addr, predominateMask(heap[addr]))

MaskAsDict(addr) ==
    Read("Mask.asDict", addr, Mask_asDict(heap[addr]))

\* every getter and asDict on every live object
Getters ==
    \/ \E addr \in Addrs("FaceDetection") : BoundingBoxScore(addr)
    \/ \E addr \in Addrs("FaceDetection") : BoundingBoxRect(addr)
    \/ \E addr \in Addrs("FaceDetection") : FaceDetectionImage(addr)
    \/ \E addr \in Addrs("FaceDetection") : FaceDetectionAsDict(addr)
    \/ \E addr \in Addrs("Mask") : MaskMedicalMask(addr)
    \/ \E addr \in Addrs("Mask") : MaskMissing(addr)
    \/ \E addr \in Addrs("Mask") : MaskOccluded(addr)
    \/ \E addr \in Addrs("Mask") : MaskPredominateMask(addr)
    \/ \E addr \in Addrs("Mask") : MaskAsDict(addr)

(* -------------------------------------------------------- specifications *)
Limits == 1..MaxDet

\* Spec: one wrapper call on a fresh detector/estimator, over every input and
\* every native answer, followed by any reads of the objects it returned
Next ==
    \/ /\ Fresh
       /\ \E image_ \in VLImages, detectArea \in DetectAreas \cup {None},
             d5 \in BOOLEAN, d68 \in BOOLEAN :
             DetectOne(image_, detectArea, d5, d68, CoreFaces)
    \/ /\ Fresh
       /\ \E images \in SeqsUpTo(DetectInputs, MaxBatch), limit \in Limits,
             d5 \in BOOLEAN, d68 \in BOOLEAN :
             Detect(images, limit, d5, d68, BatchFaces)
    \/ /\ Fresh
       /\ \E imageObject \in EstimateInputs : Estimate(imageObject, CoreMasks)
    \/ Getters

Spec == Init /\ [][Next]_vars

\* SpecSession: any sequence of calls and reads on the same detector and
\* estimator while at most MaxLive result objects are alive; the calls use
\* the default landmark flags on the first image
SessionImages == {VLImage(1, "R8G8B8")}

SessionFaces == {CoreFace(1, TRUE, TRUE, FALSE), CoreFace(5, FALSE, TRUE, FALSE)}

SessionMasks == {MedicalMaskEstimation(3, 1, 2, "Mask"),
                 MedicalMaskEstimation(3, 1, 2, "Unknown")}

NextSession ==
    \/ /\ \E image_ \in SessionImages :
             DetectOne(image_, None, TRUE, FALSE, SessionFaces)
       /\ Len(heap') <= MaxLive
    \/ /\ \E images \in SeqsUpTo(SessionImages, MaxBatch) :
             Detect(images, MaxDet, TRUE, FALSE, {CoreFace(2, TRUE, FALSE, TRUE)})
       /\ Len(heap') <= MaxLive
    \/ /\ Estimate(FaceWarpedImage(1), SessionMasks)
       /\ Len(heap') <= MaxLive
    \/ Getters

SpecSession == Init /\ [][NextSession]_vars

(* ---------------------------------------------------------------- claims *)
\* the last operation made its native call
NativeCalled == last.request # None

NativeError == last.native[1].isError

NativeCode == last.native[1].FSDKError

RaisedSDK == last.outcome.kind = "raise" /\ last.outcome.exc = "LunaSDKException"

\* the VLImage of one input of detect
InputImage(input) == IF input.type = "VLImage" THEN input ELSE input.image

\* C1: whenever the native detectOne reports BufferIsEmpty, detectOne returns
\* None, raises nothing and builds no FaceDetection, whatever the image, the
\* detect area and the landmark flags.
C1_DetectOneBufferIsEmptyIsNone ==
    (last.op = "detectOne" /\ NativeError /\ NativeCode = "BufferIsEmpty")
        => /\ last.outcome.kind = "return"
           /\ last.outcome.value = None
           /\ last.outcome.new = <<>>
           /\ heap = <<>>

C1_Witness ==
    /\ last.op = "detectOne"
    /\ NativeError /\ NativeCode = "BufferIsEmpty"
    /\ last.input.detectArea # None
    /\ last.input.detect68Landmarks /\ ~last.input.detect5Landmarks
    /\ last.outcome.kind = "return"

\* C2 as stated: when the native call of detect or of estimate reports
\* BufferIsEmpty, the wrapper returns a no-result value instead of raising.
C2_BufferIsEmptyIsNoResultEverywhere ==
    (last.op \in {"detect", "estimate"} /\ NativeCalled
     /\ NativeError /\ NativeCode = "BufferIsEmpty")
        => last.outcome.kind = "return"

\* C2 amended: the BufferIsEmpty rule is detectOne's alone; when the native
\* call of detect or of estimate reports BufferIsEmpty, the wrapper raises
\* LunaSDKException carrying that error and returns nothing.
C2_BufferIsEmptyRaisesInDetectAndEstimate ==
    (last.op \in {"detect", "estimate"} /\ NativeCalled
     /\ NativeError /\ NativeCode = "BufferIsEmpty")
        => /\ RaisedSDK
           /\ last.outcome.error.detail = "BufferIsEmpty"
           /\ last.outcome.new = <<>>
           /\ heap = <<>>

C2_Witness ==
    /\ last.op = "detect"
    /\ NativeCalled
    /\ Len(last.input.images) = MaxBatch
    /\ NativeError /\ NativeCode = "BufferIsEmpty"
    /\ RaisedSDK

\* C3: at detectOne, detect and estimate, a native error other than
\* BufferIsEmpty makes the wrapper raise LunaSDKException carrying the native
\* error code and build no result object; a native success never ends in a
\* LunaSDKException.
C3_NativeErrorRaisesSDKException ==
    (last.op \in {"detectOne", "detect", "estimate"} /\ NativeCalled)
        => /\ (NativeError /\ NativeCode # "BufferIsEmpty")
                => /\ RaisedSDK
                   /\ last.outcome.error.detail = NativeCode
                   /\ last.outcome.new = <<>>
                   /\ heap = <<>>
           /\ ~NativeError => ~RaisedSDK

C3_Witness ==
    /\ last.op = "estimate"
    /\ NativeError /\ NativeCode = "InvalidImage"
    /\ RaisedSDK

\* C4: every detectOne call ends by returning a FaceDetection, by returning
\* None or by raising LunaSDKException, and raises no other exception.
C4_DetectOneThreeOutcomes ==
    last.op = "detectOne"
        => \/ /\ last.outcome.kind = "return"
              /\ \/ last.outcome.value = None
                 \/ /\ last.outcome.value.type = "ref"
                    /\ heap[last.outcome.value.addr].type = "FaceDetection"
           \/ RaisedSDK

\* some input of the batch is not R8G8B8
HasBadFormat(images) ==
    \E i \in 1..Len(images) : InputImage(images[i]).format # "R8G8B8"

BadFormatRaised == RaisedSDK /\ last.outcome.error.description = "bad format"

\* C5: detect on a batch with an input that is not R8G8B8, at any position and
\* of either shape, raises the bad-format LunaSDKException without calling
\* the native detector and without building detections; on a batch of
\* R8G8B8 inputs the bad-format error is never raised.
C5_BadFormatRaisesBeforeNative ==
    last.op = "detect"
        => IF HasBadFormat(last.input.images)
           THEN /\ BadFormatRaised
                /\ ~NativeCalled
                /\ last.outcome.new = <<>>
                /\ heap = <<>>
           ELSE ~BadFormatRaised

C5_Witness ==
    /\ last.op = "detect"
    /\ Len(last.input.images) = 2
    /\ InputImage(last.input.images[1]).format = "R8G8B8"
    /\ last.input.images[2].type = "ImageForDetection"
    /\ last.input.images[2].image.format # "R8G8B8"
    /\ BadFormatRaised

\* C6: when detect succeeds on n inputs, the native detector was given the n
\* core images in input order and detect returns n lists; list i holds one
\* FaceDetection per native detection of image i, in the native order, each a
\* distinct object wrapping that detection.
C6_BatchResultsFollowInputOrder ==
    (last.op = "detect" /\ last.outcome.kind = "return")
        => LET images == last.input.images
               lists == last.native[2]
               value == last.outcome.value
           IN  /\ last.request.images
                    = [i \in 1..Len(images) |-> InputImage(images[i]).coreImage]
               /\ Len(value) = Len(images)
               /\ \A i \in 1..Len(images) :
                    /\ Len(value[i]) = Len(lists[i])
                    /\ \A j \in 1..Len(lists[i]) :
                         /\ value[i][j].addr \in 1..Len(heap)
                         /\ heap[value[i][j].addr].type = "FaceDetection"
                         /\ heap[value[i][j].addr].coreEstimation = lists[i][j]
                         /\ heap[value[i][j].addr].boundingBox.coreEstimation
                              = lists[i][j].detection
               /\ \A i1, i2 \in 1..Len(images) :
                    \A j1 \in 1..Len(value[i1]), j2 \in 1..Len(value[i2]) :
                      value[i1][j1].addr = value[i2][j2].addr => (i1 = i2 /\ j1 = j2)
               /\ Len(heap) = SumSeq([i \in 1..Len(images) |-> Len(lists[i])])

C6_Witness ==
    /\ last.op = "detect"
    /\ last.outcome.kind = "return"
    /\ Len(last.input.images) = 2
    /\ Len(last.outcome.value[1]) = 2
    /\ Len(last.outcome.value[2]) = 1
    /\ last.native[2][1][1] # last.native[2][1][2]

\* C7: the image of every FaceDetection returned by detectOne or held in
\* list i of detect's result is the source VLImage: the image argument of
\* detectOne, the VLImage of input i of detect for both input shapes.
C7_DetectionImageIsSourceVLImage ==
    /\ (last.op = "detectOne" /\ last.outcome.kind = "return"
        /\ last.outcome.value # None)
          => image(heap[last.outcome.value.addr]) = last.input.image
    /\ (last.op = "detect" /\ last.outcome.kind = "return")
          => \A i \in 1..Len(last.outcome.value) :
               \A j \in 1..Len(last.outcome.value[i]) :
                 image(heap[last.outcome.value[i][j].addr])
                    = InputImage(last.input.images[i])

\* C9: Mask.asDict on a Mask whose core result is NoMask, Mask or
\* OccludedFace returns a dict with exactly the keys predominant_mask and
\* estimations; estimations has exactly the keys medical_mask, missing and
\* occluded with the core maskScore, noMaskScore and occludedFaceScore;
\* predominant_mask is "missing", "medical_mask" or "occluded" respectively
\* and agrees with predominateMask; on any other core result asDict raises
\* RuntimeError.
C9_MaskAsDict ==
    last.op = "Mask.asDict"
        => LET self == heap[last.input.self.addr]
               core == self.coreEstimation
               out == last.outcome
           IN  IF core.result \in {"NoMask", "Mask", "OccludedFace"}
               THEN /\ out.kind = "return"
                    /\ DOMAIN out.value = {"predominant_mask", "estimations"}
                    /\ DOMAIN out.value.estimations
                         = {"medical_mask", "missing", "occluded"}
                    /\ out.value.estimations.medical_mask = core.maskScore
                    /\ out.value.estimations.missing = core.noMaskScore
                    /\ out.value.estimations.occluded = core.occludedFaceScore
                    /\ out.value.predominant_mask
                         = (IF core.result = "NoMask" THEN "missing"
                            ELSE IF core.result = "Mask" THEN "medical_mask"
                            ELSE "occluded")
                    /\ predominateMask(self).kind = "return"
                    /\ <<predominateMask(self).value, out.value.predominant_mask>>
                         \in {<<"Missing", "missing">>,
                              <<"MedicalMask", "medical_mask">>,
                              <<"Occluded", "occluded">>}
               ELSE /\ out.kind = "raise"
                    /\ out.exc = "RuntimeError"

C9_Witness ==
    /\ last.op = "Mask.asDict"
    /\ heap[last.input.self.addr].coreEstimation.result = "Unknown"
    /\ last.outcome.kind = "raise"

\* C10: no operation of the wrapper (a property getter, asDict, a later
\* detectOne, detect or estimate call) changes an object already built: its
\* boundingBox, landmarks5, landmarks68, image and wrapped core estimation
\* stay what the constructor set.
C10_ResultObjectsImmutable ==
    [][\A a \in 1..Len(heap) : a <= Len(heap') /\ heap'[a] = heap[a]]_vars

\* a FaceDetection built by detectOne or detect is alive after a later
\* estimate call built a Mask and after asDict was then read
C10_Witness ==
    /\ Len(heap) >= 2
    /\ heap[1].type = "FaceDetection"
    /\ heap[2].type = "Mask"
    /\ last.op = "FaceDetection.asDict"

\* C11: for every FaceDetection, landmarks5 is None exactly when the core
\* landmarks5 optional is invalid and landmarks68 is None exactly when the
\* core landmarks68 optional is invalid, each whatever the other is; asDict
\* has the keys rect and score, the key landmarks5 exactly when landmarks5
\* is not None, the key landmarks68 exactly when landmarks68 is not None,
\* and no other key.
C11_LandmarksFollowCoreOptionals ==
    /\ \A a \in Addrs("FaceDetection") :
         /\ (heap[a].landmarks5 = None)
              <=> ~heap[a].coreEstimation.landmarks5_opt.valid
         /\ (heap[a].landmarks68 = None)
              <=> ~heap[a].coreEstimation.landmarks68_opt.valid
    /\ last.op = "FaceDetection.asDict"
         => LET self == heap[last.input.self.addr]
                keys == DOMAIN last.outcome.value
            IN  /\ last.outcome.kind = "return"
                /\ {"rect", "score"} \subseteq keys
                /\ ("landmarks5" \in keys) <=> (self.landmarks5 # None)
                /\ ("landmarks68" \in keys) <=> (self.landmarks68 # None)
                /\ keys \subseteq {"rect", "score", "landmarks5", "landmarks68"}

\* asDict read on a detection that has landmarks68 but no landmarks5
C11_Witness ==
    /\ last.op = "FaceDetection.asDict"
    /\ heap[last.input.self.addr].coreEstimation.landmarks68_opt.valid
    /\ ~heap[last.input.self.addr].coreEstimation.landmarks5_opt.valid
    /\ heap[last.input.self.addr].landmarks5 = None
    /\ DOMAIN last.outcome.value = {"rect", "score", "landmarks68"}

\* the core rect `core` has the coordinates of the Rect `r`
SameRect(core, r) ==
    /\ core.type = "CoreRect"
    /\ core.x = r.x /\ core.y = r.y
    /\ core.width = r.width /\ core.height = r.height

\* C12: the detection type detectOne and detect hand to the native detector
\* has the dt5Landmarks bit exactly when detect5Landmarks is true, the
\* dt68Landmarks bit exactly when detect68Landmarks is true and no other bit
\* (0 when both are false, dt5Landmarks alone for the defaults); the detect
\* area handed over for an image is the given detectArea when there is one
\* and the full rect of the image otherwise (detectOne with detectArea None,
\* detect with a bare VLImage).
C12_RequestMatchesArguments ==
    (last.op \in {"detectOne", "detect"} /\ NativeCalled)
        => LET type == last.request.type
               d5 == last.input.detect5Landmarks
               d68 == last.input.detect68Landmarks
           IN  /\ type \in 0..(dt5Landmarks + dt68Landmarks)
               /\ ((type \div dt5Landmarks) % 2 = 1) <=> d5
               /\ ((type \div dt68Landmarks) % 2 = 1) <=> d68
               /\ (~d5 /\ ~d68) => type = 0
               /\ (d5 = DefaultDetect5Landmarks /\ d68 = DefaultDetect68Landmarks)
                    => type = dt5Landmarks
               /\ last.op = "detectOne"
                    => /\ Len(last.request.areas) = 1
                       /\ IF last.input.detectArea = None
                          THEN last.request.areas[1]
                                 = getRect(last.input.image.coreImage)
                          ELSE SameRect(last.request.areas[1], last.input.detectArea)
               /\ last.op = "detect"
                    => /\ Len(last.request.areas) = Len(last.input.images)
                       /\ \A i \in 1..Len(last.input.images) :
                            IF last.input.images[i].type = "VLImage"
                            THEN last.request.areas[i]
                                   = getRect(last.input.images[i].coreImage)
                            ELSE SameRect(last.request.areas[i],
                                          last.input.images[i].detectArea)

\* a detect call asking for landmarks68 only, on a bare VLImage followed by
\* an ImageForDetection, reached the native detector
C12_Witness ==
    /\ last.op = "detect"
    /\ NativeCalled
    /\ ~last.input.detect5Landmarks /\ last.input.detect68Landmarks
    /\ Len(last.input.images) = 2
    /\ last.input.images[1].type = "VLImage"
    /\ last.input.images[2].type = "ImageForDetection"
    /\ last.request.type = dt68Landmarks
    /\ last.request.areas[1] # last.request.areas[2]

====
